---------------------------- MODULE Spec2Model ----------------------------
(***************************************************************************)
(* The direct-trade chaincode (CreateBondPublic, CreateTrade, AnswerTrade, *)
(* AnswerTradeAsOwner, CloseDirectTrade, CreateTransaction,                *)
(* SetEncryptionKey) as a state machine over the single "ledger" document  *)
(* of the world state and the organizations' implicit private collections, *)
(* with the private bond records (CreateBondPrivate, GetBond), the queries *)
(* (CheckDirectTrades, GetYourDirectTrades, GetAllYourBonds) and the       *)
(* inventory variant of bond creation (CreateBond, AddToInventory).        *)
(*                                                                         *)
(* Units: a float64 price is an integer number of thousandths; the string  *)
(* produced by Sprintf("%.2f") is an integer number of hundredths.         *)
(* A time.Time is a positive integer; time.Time{} is ZeroTime.             *)
(***************************************************************************)
EXTENDS Integers, Sequences, FiniteSets, TLC

\* ------------------------------------------------------------------ bounds
MaxVersion == 4
MaxPending == 2
MaxBonds == 1
MaxPrivate == 2
MaxInventory == 2

\* ------------------------------------------------------------------ inputs
Orgs == {"Org1MSP", "Org2MSP"}
Hashes == Orgs
AnswerValues == {"yes", "no"}
SellerTimes == {1}
BuyerTimes == {2}
ZeroTime == 0
NoKey == "<nil>"

BondRequests ==
  { [uid |-> "u1", ownerHash |-> "Org1MSP", bondID |-> "FR RA7777", cusip |-> "c1",
     class1 |-> "passthrough", originalFace |-> 1000],
    [uid |-> "u2", ownerHash |-> "Org1MSP", bondID |-> "FR RA8888", cusip |-> "c2",
     class1 |-> "passthrough", originalFace |-> 1000],
    [uid |-> "u1", ownerHash |-> "Org2MSP", bondID |-> "FR RA7777", cusip |-> "c1",
     class1 |-> "passthrough", originalFace |-> 1000] }

TradeRequests ==
  { [directTradeID |-> "t1", bidderHash |-> "Org2MSP", cusip |-> "c1",
     createdAtString |-> "2024-01-02T12:00:01Z", originalFace |-> 1000, bidPrice |-> 99557],
    [directTradeID |-> "t2", bidderHash |-> "Org1MSP", cusip |-> "c2",
     createdAtString |-> "2024-01-02T12:00:02Z", originalFace |-> 500, bidPrice |-> 99500],
    [directTradeID |-> "t2", bidderHash |-> "Org2MSP", cusip |-> "c1",
     createdAtString |-> "02/01/2024", originalFace |-> 1000, bidPrice |-> 99500] }

TradeIDs == {r.directTradeID : r \in TradeRequests}

UIDs == {r.uid : r \in BondRequests}
Cusips == {r.cusip : r \in BondRequests}
ReservePrices == {98000, 99000}
\* The value of a world-state key that was never put.
NoBond == [Cusip |-> "<nil>"]

\* ------------------------------------------------------------------- state
VARIABLES
  ledger,         \* the document under the world-state key "ledger"
  version,        \* how many writes of the key "ledger" were committed
  encryptionKey,  \* per organization: private data key "encryption_key"
  pending,        \* endorsed proposals queued at the orderer, oldest first
  last,           \* the most recent invocation that ended, and its outcome
  settled,        \* per trade entry: how many settlements were committed for it
  recent,         \* per trade entry and seller: value of the latest seller answer
  privateBonds,   \* per organization: private data key "private_bonds_information"
  bondState,      \* inventory variant: the world-state keys named by a cusip
  inventory       \* inventory variant: per organization, private data key "inventory"

vars == <<ledger, version, encryptionKey, pending, last, settled, recent,
          privateBonds, bondState, inventory>>

\* ----------------------------------------------------------------- helpers
Min(S) == CHOOSE x \in S : \A y \in S : x <= y

\* First index of a set of matching indices, 0 when there is none
\* (the `for i, x := range ... { if ... { ...; break } }` loops).
FirstIndex(hits) == IF hits = {} THEN 0 ELSE Min(hits)

EmptyLedger == [Bonds |-> <<>>, DirectTrades |-> <<>>, Transactions |-> <<>>]

Ok(l, i) == [err |-> "", ledger |-> l, settled |-> i]
Fail(msg, l) == [err |-> msg, ledger |-> l, settled |-> 0]

ErrTradeNotFound == "direct trade not found"
ErrTradeClosed == "direct trade is closed"
ErrNotOwner == "you are not the owner of the trade"
ErrNoBond == "the seller does not own any bonds for this trade"
ErrParseTime == "error parsing time"
ErrConflict == "MVCC_READ_CONFLICT"


\* ------------------------------------------------------------ conversions
\* time.Parse("2006-01-02T15:04:05Z", s): the instant, or an error for a string
\* that is not in the layout.
ParseTime(s) ==
  CASE s = "2024-01-02T12:00:01Z" -> [ok |-> TRUE, t |-> 1]
    [] s = "2024-01-02T12:00:02Z" -> [ok |-> TRUE, t |-> 2]
    [] OTHER -> [ok |-> FALSE, t |-> ZeroTime]

\* fmt.Sprintf("%.2f", p): p (thousandths) rounded to hundredths.
FormatPrice(p) == (p + 5) \div 10

\* The number a formatted price (hundredths) denotes, in thousandths.
PriceOfString(s) == s * 10

\* --------------------------------------------------------- private data
\* getEncryptionKey: the caller's own "encryption_key", NoKey when absent.
getEncryptionKey(mspID) == encryptionKey[mspID]

GenerateOrgHash(mspID) == getEncryptionKey(mspID)

\* Mutant: any hash is owned once the caller has stored a key.
IsOwnerOfAnyHash(mspID, ownerHash) == getEncryptionKey(mspID) # NoKey

IsOwner(mspID, ownerHash) ==
  /\ getEncryptionKey(mspID) # NoKey
  /\ ownerHash = getEncryptionKey(mspID)

\* ------------------------------------------------------------ the ledger
getAllBonds(l) == l.Bonds

FindTrade(trades, directTradeID) ==
  FirstIndex({i \in 1..Len(trades) : trades[i].DirectTradeID = directTradeID})

FindAnswer(answers, sellerIDHash) ==
  FirstIndex({i \in 1..Len(answers) : answers[i].SellerIDHash = sellerIDHash})

FindBondOwnedBy(bonds, ownerHash) ==
  FirstIndex({i \in 1..Len(bonds) : bonds[i].OwnerHash = ownerHash})

NoResponse == [Value |-> "", Timestamp |-> ZeroTime]

NewAnswer(sellerIDHash) ==
  [SellerIDHash |-> sellerIDHash, SellerResponse |-> NoResponse,
   BuyerResponse |-> NoResponse]

\* Mutant: an entry is appended whether or not the seller has one.
FindOrCreateAnswerAlwaysCreates(answers, sellerIDHash) ==
  Append(answers, NewAnswer(sellerIDHash))

\* "Find or create answer object": the answers with an entry for the seller.
FindOrCreateAnswer(answers, sellerIDHash) ==
  IF FindAnswer(answers, sellerIDHash) = 0
  THEN Append(answers, NewAnswer(sellerIDHash))
  ELSE answers

\* Mutant: buyer and seller exchanged.
GenerateTransactionObjectSwapped(buyerID, sellerID, cusip, originalFace, boughtPrice, timestamp) ==
  [BuyerID |-> sellerID, SellerID |-> buyerID, Cusip |-> cusip,
   OriginalFace |-> originalFace, BoughtPrice |-> boughtPrice,
   Timestamp |-> timestamp]

GenerateTransactionObject(buyerID, sellerID, cusip, originalFace, boughtPrice, timestamp) ==
  [BuyerID |-> buyerID, SellerID |-> sellerID, Cusip |-> cusip,
   OriginalFace |-> originalFace, BoughtPrice |-> boughtPrice,
   Timestamp |-> timestamp]

\* ------------------------------------------------------------- handlers
\* Each handler is the function (ledger read, caller, arguments) -> (error,
\* ledger written, trade entry settled).

CreateBondPublic(l, uid, ownerHash, bondID, cusip, class1, originalFace) ==
  LET bond == [UID |-> uid, Bond |-> bondID, Cusip |-> cusip,
               OriginalFace |-> originalFace, OwnerHash |-> ownerHash,
               Class1 |-> class1]
  IN Ok([l EXCEPT !.Bonds = Append(@, bond)], 0)

\* Mutant: the parsed time is not stored in the trade.
CreateTradeWithoutCreatedAt(l, directTradeID, bidderHash, cusip, createdAtString, originalFace, bidPrice) ==
  LET parsedTime == ParseTime(createdAtString)
      trade == [DirectTradeID |-> directTradeID, Cusip |-> cusip,
                OriginalFace |-> originalFace, BidPrice |-> bidPrice,
                BidderHash |-> bidderHash, State |-> "Open", Answers |-> <<>>,
                CreatedAt |-> ZeroTime]
  IN IF ~parsedTime.ok
     THEN Fail(ErrParseTime, l)
     ELSE Ok([l EXCEPT !.DirectTrades = Append(@, trade)], 0)

\* Mutant: the new trade is put in front of the trades already there.
CreateTradeAtFront(l, directTradeID, bidderHash, cusip, createdAtString, originalFace, bidPrice) ==
  LET parsedTime == ParseTime(createdAtString)
      trade == [DirectTradeID |-> directTradeID, Cusip |-> cusip,
                OriginalFace |-> originalFace, BidPrice |-> bidPrice,
                BidderHash |-> bidderHash, State |-> "Open", Answers |-> <<>>,
                CreatedAt |-> parsedTime.t]
  IN IF ~parsedTime.ok
     THEN Fail(ErrParseTime, l)
     ELSE Ok([l EXCEPT !.DirectTrades = <<trade>> \o @], 0)

CreateTrade(l, directTradeID, bidderHash, cusip, createdAtString, originalFace, bidPrice) ==
  LET parsedTime == ParseTime(createdAtString)
      trade == [DirectTradeID |-> directTradeID, Cusip |-> cusip,
                OriginalFace |-> originalFace, BidPrice |-> bidPrice,
                BidderHash |-> bidderHash, State |-> "Open", Answers |-> <<>>,
                CreatedAt |-> parsedTime.t]
  IN IF ~parsedTime.ok
     THEN Fail(ErrParseTime, l)
     ELSE Ok([l EXCEPT !.DirectTrades = Append(@, trade)], 0)

\* Mutant: the state of the trade is not looked at.
CheckDirectTradesAnyState(l, cusip) ==
  SelectSeq(l.DirectTrades, LAMBDA trade : trade.Cusip = cusip)

\* CheckDirectTrades: the trades of the cusip that are Open, in ledger order.
CheckDirectTrades(l, cusip) ==
  SelectSeq(l.DirectTrades,
            LAMBDA trade : trade.Cusip = cusip /\ trade.State = "Open")

ErrNoBidderHash == "failed to generate bidder hash"

\* GetYourDirectTrades: the trades whose BidderHash is the caller's stored
\* key, in ledger order; an error when the caller has stored none.
GetYourDirectTrades(l, mspID) ==
  IF getEncryptionKey(mspID) = NoKey
  THEN [err |-> ErrNoBidderHash, result |-> <<>>]
  ELSE [err |-> "",
        result |-> SelectSeq(l.DirectTrades,
                             LAMBDA trade : trade.BidderHash = GenerateOrgHash(mspID))]

\* Mutant: the caller is not checked against the bidder.
CloseDirectTradeAnyCaller(l, mspID, tradeID) ==
  LET i == FindTrade(l.DirectTrades, tradeID)
  IN IF i = 0
     THEN Fail(ErrTradeNotFound, l)
     ELSE Ok([l EXCEPT !.DirectTrades[i].State = "Closed"], 0)

\* Mutant: closing also discards the answers of the trade.
CloseDirectTradeDropsAnswers(l, mspID, tradeID) ==
  LET i == FindTrade(l.DirectTrades, tradeID)
  IN IF i = 0
     THEN Fail(ErrTradeNotFound, l)
     ELSE IF IsOwner(mspID, l.DirectTrades[i].BidderHash)
          THEN Ok([l EXCEPT !.DirectTrades[i].State = "Closed",
                            !.DirectTrades[i].Answers = <<>>], 0)
          ELSE Fail(ErrNotOwner, l)

\* Mutant: closing flips the state, so closing a Closed trade reopens it.
CloseDirectTradeToggles(l, mspID, tradeID) ==
  LET i == FindTrade(l.DirectTrades, tradeID)
  IN IF i = 0
     THEN Fail(ErrTradeNotFound, l)
     ELSE IF IsOwner(mspID, l.DirectTrades[i].BidderHash)
          THEN Ok([l EXCEPT !.DirectTrades[i].State =
                              IF @ = "Open" THEN "Closed" ELSE "Open"], 0)
          ELSE Fail(ErrNotOwner, l)

CloseDirectTrade(l, mspID, tradeID) ==
  LET i == FindTrade(l.DirectTrades, tradeID)
  IN IF i = 0
     THEN Fail(ErrTradeNotFound, l)
     ELSE IF IsOwner(mspID, l.DirectTrades[i].BidderHash)
          THEN Ok([l EXCEPT !.DirectTrades[i].State = "Closed"], 0)
          ELSE Fail(ErrNotOwner, l)

\* Mutant: the BuyerResponse is not cleared.
AnswerTradeKeepsBuyerResponse(l, directTradeID, sellerIDHash, answerValue, timestamp) ==
  LET i == FindTrade(l.DirectTrades, directTradeID)
  IN IF i = 0
     THEN Fail(ErrTradeNotFound, l)
     ELSE LET answers == FindOrCreateAnswer(l.DirectTrades[i].Answers, sellerIDHash)
              k == FindAnswer(answers, sellerIDHash)
              updated == [answers EXCEPT
                            ![k].SellerResponse =
                               [Value |-> answerValue, Timestamp |-> timestamp]]
          IN Ok([l EXCEPT !.DirectTrades[i].Answers = updated], 0)

AnswerTrade(l, directTradeID, sellerIDHash, answerValue, timestamp) ==
  LET i == FindTrade(l.DirectTrades, directTradeID)
  IN IF i = 0
     THEN Fail(ErrTradeNotFound, l)
     ELSE LET answers == FindOrCreateAnswer(l.DirectTrades[i].Answers, sellerIDHash)
              k == FindAnswer(answers, sellerIDHash)
              updated == [answers EXCEPT
                            ![k].SellerResponse =
                               [Value |-> answerValue, Timestamp |-> timestamp],
                            ![k].BuyerResponse = NoResponse]
          IN Ok([l EXCEPT !.DirectTrades[i].Answers = updated], 0)

\* Mutant: the settlement goes on when the seller owns no bond.
SettleWithoutInventoryCheck(l, state, i, k, sellerIDHash, timestamp) ==
  LET trade == l.DirectTrades[i]
      answer == trade.Answers[k]
      b == FindBondOwnedBy(l.Bonds, sellerIDHash)
      transaction == GenerateTransactionObject(trade.BidderHash, answer.SellerIDHash,
                        trade.Cusip, trade.OriginalFace,
                        FormatPrice(trade.BidPrice), timestamp)
      moved == IF b = 0 THEN l.Bonds
               ELSE [l.Bonds EXCEPT ![b].OwnerHash = trade.BidderHash]
  IN Ok([l EXCEPT !.Bonds = moved,
                  !.DirectTrades[i].State = "Closed",
                  !.Transactions = Append(@, transaction)], i)

\* Lines 524-561: the settlement of trade entry i for the answer k of l, whose
\* BuyerResponse was just set. state is the committed ledger getAllBonds reads.
Settle(l, state, i, k, sellerIDHash, timestamp) ==
  LET trade == l.DirectTrades[i]
      answer == trade.Answers[k]
      owned == FindBondOwnedBy(getAllBonds(state), sellerIDHash)
      b == FindBondOwnedBy(l.Bonds, sellerIDHash)
      transaction == GenerateTransactionObject(trade.BidderHash, answer.SellerIDHash,
                        trade.Cusip, trade.OriginalFace,
                        FormatPrice(trade.BidPrice), timestamp)
      moved == IF b = 0 THEN l.Bonds
               ELSE [l.Bonds EXCEPT ![b].OwnerHash = trade.BidderHash]
  IN IF owned = 0
     THEN Fail(ErrNoBond, state)
     ELSE Ok([l EXCEPT !.Bonds = moved,
                       !.DirectTrades[i].State = "Closed",
                       !.Transactions = Append(@, transaction)], i)

\* Mutant: the seller's "yes" alone settles.
MutualYesSellerOnly(answer) == answer.SellerResponse.Value = "yes"

\* Mutant: the buyer's "yes" alone settles.
MutualYesBuyerOnly(answer) == answer.BuyerResponse.Value = "yes"

\* Lines 524-525: both sides of the answer say "yes".
MutualYes(answer) ==
  /\ answer.SellerResponse.Value = "yes"
  /\ answer.BuyerResponse.Value = "yes"

\* Mutant: the bidder is not compared with the caller.
CheckTradeAsOwnerAnyCaller(trade, mspID) ==
  IF trade.State # "Open" THEN ErrTradeClosed ELSE ""

\* Mutant: the state of the trade is not looked at.
CheckTradeAsOwnerAnyState(trade, mspID) ==
  IF trade.BidderHash # mspID THEN ErrNotOwner ELSE ""

\* Lines 476-487: the checks on the trade found.
CheckTradeAsOwner(trade, mspID) ==
  IF trade.State # "Open" THEN ErrTradeClosed
  ELSE IF trade.BidderHash # mspID THEN ErrNotOwner
  ELSE ""

AnswerTradeAsOwner(l, mspID, directTradeID, sellerIDHash, answerValue, timestamp) ==
  LET i == FindTrade(l.DirectTrades, directTradeID)
  IN IF i = 0
     THEN Fail(ErrTradeNotFound, l)
     ELSE IF CheckTradeAsOwner(l.DirectTrades[i], mspID) # ""
     THEN Fail(CheckTradeAsOwner(l.DirectTrades[i], mspID), l)
     ELSE LET answers == FindOrCreateAnswer(l.DirectTrades[i].Answers, sellerIDHash)
              k == FindAnswer(answers, sellerIDHash)
              updated == [answers EXCEPT
                            ![k].BuyerResponse =
                               [Value |-> answerValue, Timestamp |-> timestamp]]
              l1 == [l EXCEPT !.DirectTrades[i].Answers = updated]
          IN IF MutualYes(updated[k])
             THEN Settle(l1, l, i, k, sellerIDHash, timestamp)
             ELSE Ok(l1, 0)

CreateTransaction(l, buyerID, sellerID, cusip, originalFace, boughtPrice, timestamp) ==
  LET transaction == [BuyerID |-> buyerID, SellerID |-> sellerID, Cusip |-> cusip,
                      OriginalFace |-> originalFace,
                      BoughtPrice |-> FormatPrice(boughtPrice),
                      Timestamp |-> timestamp]
  IN Ok([l EXCEPT !.Transactions = Append(@, transaction)], 0)


\* ------------------------------------------------- private bond records
\* The handlers of the private half of a bond: functions of the partitions pb
\* (one list of PrivateBond per organization) and the caller mspID.
ErrPrivateBondNotFound == "private bond not found"
ErrNoBondWithCusip == "could not find any bonds with specified Cusip"

\* getPrivateBonds: the caller's own list, empty when nothing was stored.
getPrivateBonds(pb, mspID) == pb[mspID]

\* getPrivateBond: the first record of the caller with the uid, or an error.
getPrivateBond(pb, mspID, uid) ==
  LET own == getPrivateBonds(pb, mspID)
      k == FirstIndex({i \in 1..Len(own) : own[i].UID = uid})
  IN IF k = 0
     THEN [err |-> ErrPrivateBondNotFound, bond |-> [UID |-> "", ReservePrice |-> 0]]
     ELSE [err |-> "", bond |-> own[k]]

\* Mutant: the record is appended to the list of one fixed organization.
storePrivateBondOfFirstOrg(pb, mspID, privateBond) ==
  [pb EXCEPT !["Org1MSP"] = Append(getPrivateBonds(pb, "Org1MSP"), privateBond)]

\* storePrivateBond: the record is appended to the caller's own list.
storePrivateBond(pb, mspID, privateBond) ==
  [pb EXCEPT ![mspID] = Append(getPrivateBonds(pb, mspID), privateBond)]

\* Mutant: the record is stored in the partition of every organization.
CreateBondPrivateEverywhere(pb, mspID, uid, reservePrice) ==
  [err |-> "",
   private |-> [o \in Orgs |->
                  Append(pb[o], [UID |-> uid, ReservePrice |-> reservePrice])]]

CreateBondPrivate(pb, mspID, uid, reservePrice) ==
  [err |-> "",
   private |-> storePrivateBond(pb, mspID,
                                [UID |-> uid, ReservePrice |-> reservePrice])]

\* GetBond: the bonds of the cusip, each with the caller's private record of
\* its uid; the error of getPrivateBond, at the first bond that has none, is
\* returned as the error of GetBond.
GetBond(l, pb, mspID, cusip) ==
  LET bonds == getAllBonds(l)
      matching == SelectSeq(bonds, LAMBDA b : b.Cusip = cusip)
      missing == {k \in 1..Len(matching) :
                    getPrivateBond(pb, mspID, matching[k].UID).err # ""}
  IN IF missing # {}
     THEN [err |-> ErrPrivateBondNotFound, result |-> <<>>]
     ELSE IF Len(matching) = 0
          THEN [err |-> ErrNoBondWithCusip, result |-> <<>>]
          ELSE [err |-> "",
                result |-> [k \in 1..Len(matching) |->
                              [Public |-> matching[k],
                               Private |-> getPrivateBond(pb, mspID,
                                                          matching[k].UID).bond]]]

\* GetAllYourBonds: the bonds whose OwnerHash is the caller's stored key, each
\* with the caller's private record of its uid; an error when the caller has
\* stored no key, and the error of getPrivateBond at the first bond that has
\* no record.
GetAllYourBonds(l, pb, mspID) ==
  LET bidderHash == GenerateOrgHash(mspID)
      allBonds == getAllBonds(l)
      yours == SelectSeq(allBonds, LAMBDA bond : bond.OwnerHash = bidderHash)
      missing == {k \in 1..Len(yours) :
                    getPrivateBond(pb, mspID, yours[k].UID).err # ""}
  IN IF getEncryptionKey(mspID) = NoKey
     THEN [err |-> ErrNoBidderHash, result |-> <<>>]
     ELSE IF missing # {}
          THEN [err |-> ErrPrivateBondNotFound, result |-> <<>>]
          ELSE [err |-> "",
                result |-> [k \in 1..Len(yours) |->
                              [Public |-> yours[k],
                               Private |-> getPrivateBond(pb, mspID,
                                                          yours[k].UID).bond]]]

\* ---------------------------------------------------- inventory variant
\* The chaincode that keeps each bond under the world-state key of its cusip
\* and each organization's bonds in its private "inventory". ws is the world
\* state (cusip -> bond or NoBond), inv the inventories, now the peer's clock,
\* fault whether the stub's GetPrivateData returns an error.
\* A bondJSON argument that is not the JSON of a bond.
InvalidJSON == [Text |-> "{"]

BondJSONs ==
  { [Bond |-> "FR RA7777", Cusip |-> "c1", OriginalFace |-> 1000,
     OwnerHash |-> "Org1MSP", Class1 |-> "passthrough"],
    [Bond |-> "FR RA8888", Cusip |-> "c2", OriginalFace |-> 1000,
     OwnerHash |-> "Org2MSP", Class1 |-> "passthrough"] }

InventoryTimes == {1, 2}

ErrUnmarshalBond == "failed to unmarshal bond JSON"
ErrBondExists == "the bond with Cusip already exists"
ErrGetInventory == "failed to get inventory"

\* json.Unmarshal of the bondJSON argument.
UnmarshalBond(bondJSON) ==
  IF bondJSON = InvalidJSON
  THEN [err |-> ErrUnmarshalBond, bond |-> NoBond]
  ELSE [err |-> "", bond |-> bondJSON]

BondExists(ws, cusip) == ws[cusip] # NoBond

GenerateMetadata(mspID, now) ==
  [Owner |-> mspID, OwnerId |-> <<"x509", mspID>>, DateCreated |-> now]

GetInventory(inv, mspID, fault) ==
  IF fault
  THEN [err |-> ErrGetInventory, inventory |-> <<>>]
  ELSE [err |-> "", inventory |-> inv[mspID]]

AddToInventory(inv, mspID, bondJSON, now, fault) ==
  LET parsed == UnmarshalBond(bondJSON)
      got == GetInventory(inv, mspID, fault)
      privateBond == [Metadata |-> GenerateMetadata(mspID, now),
                      Content |-> parsed.bond]
  IN IF parsed.err # ""
     THEN [err |-> parsed.err, inventory |-> inv]
     ELSE IF got.err # ""
          THEN [err |-> got.err, inventory |-> inv]
          ELSE [err |-> "",
                inventory |-> [inv EXCEPT ![mspID] = Append(got.inventory, privateBond)]]

\* CreateBond: the bond is put under its cusip unless one is there; the
\* result of AddToInventory is not looked at (line 287).
CreateBond(ws, inv, mspID, bondJSON, now, fault) ==
  LET parsed == UnmarshalBond(bondJSON)
      added == AddToInventory(inv, mspID, bondJSON, now, fault)
  IN IF parsed.err # ""
     THEN [err |-> parsed.err, bondState |-> ws, inventory |-> inv]
     ELSE IF BondExists(ws, parsed.bond.Cusip)
          THEN [err |-> ErrBondExists, bondState |-> ws, inventory |-> inv]
          ELSE [err |-> "",
                bondState |-> [ws EXCEPT ![parsed.bond.Cusip] = parsed.bond],
                inventory |-> added.inventory]

\* -------------------------------------------------------------- actions
TransactionRequests ==
  { [buyerID |-> "Org2MSP", sellerID |-> "Org1MSP", cusip |-> "c1",
     originalFace |-> 1000, boughtPrice |-> 99557, timestamp |-> 2] }

NoArgs == [id |-> "", seller |-> "", value |-> "", ts |-> ZeroTime]
AnswerArgs(id, seller, value, ts) ==
  [id |-> id, seller |-> seller, value |-> value, ts |-> ts]

Outcome(op, err) == [op |-> op, err |-> err]

\* The bookkeeping of a committed write: one counter per trade entry, raised by
\* a settlement of that entry.
SettledAfter(l, res) ==
  [i \in 1..Len(l.DirectTrades) |->
     (IF i <= Len(settled) THEN settled[i] ELSE 0)
       + (IF res.settled = i THEN 1 ELSE 0)]

\* The bookkeeping of a committed seller answer: its value, per entry and seller.
RecentAfter(l, before, op, args) ==
  [i \in 1..Len(l.DirectTrades) |->
     [h \in Hashes |->
        IF op = "AnswerTrade" /\ i = FindTrade(before.DirectTrades, args.id)
           /\ h = args.seller
        THEN args.value
        ELSE IF i <= Len(recent) THEN recent[i][h] ELSE ""]]

\* The committed ledger after an invocation that read l: the write of a
\* successful invocation reaches the world state, a failed one writes nothing.
Committed(l, res) == IF res.err = "" THEN res.ledger ELSE l

Apply(op, org, args, res) ==
  /\ IF res.err = ""
     THEN /\ version < MaxVersion
          /\ ledger' = Committed(ledger, res)
          /\ version' = version + 1
          /\ settled' = SettledAfter(res.ledger, res)
          /\ recent' = RecentAfter(res.ledger, ledger, op, args)
     ELSE UNCHANGED <<ledger, version, settled, recent>>
  /\ last' = IF res.err = "" THEN Outcome("", "") ELSE Outcome(op, res.err)

\* The caller of a failed invocation has its error; the next invocation is
\* taken up once the error was returned.
Idle == last.err = ""

Return ==
  /\ ~Idle
  /\ last' = Outcome("", "")
  /\ UNCHANGED <<ledger, version, encryptionKey, pending, settled, recent>>
  /\ UNCHANGED <<privateBonds, bondState, inventory>>

\* An invocation endorsed and committed with nothing else in flight.
Invoke(op, org, args, res) ==
  /\ Idle
  /\ pending = <<>>
  /\ Apply(op, org, args, res)
  /\ UNCHANGED <<encryptionKey, pending, privateBonds, bondState, inventory>>

\* An invocation endorsed against the committed ledger and handed to the
\* orderer: its read set is the version of the key "ledger", its write set the
\* ledger it computed. A failed invocation is not handed on.
Endorse(op, org, args, res) ==
  /\ Idle
  /\ Len(pending) < MaxPending
  /\ IF res.err = ""
     THEN /\ pending' = Append(pending, [op |-> op, org |-> org, args |-> args,
                                         readVersion |-> version, res |-> res])
          /\ UNCHANGED last
     ELSE /\ last' = Outcome(op, res.err)
          /\ UNCHANGED pending
  /\ UNCHANGED <<ledger, version, encryptionKey, settled, recent>>
  /\ UNCHANGED <<privateBonds, bondState, inventory>>

\* The oldest queued proposal is validated: it commits when the version it
\* read is still current, and is invalidated otherwise.
Commit ==
  /\ Idle
  /\ pending # <<>>
  /\ LET p == Head(pending)
     IN IF p.readVersion = version
        THEN Apply(p.op, p.org, p.args, p.res)
        ELSE /\ last' = Outcome(p.op, ErrConflict)
             /\ UNCHANGED <<ledger, version, settled, recent>>
  /\ pending' = Tail(pending)
  /\ UNCHANGED <<encryptionKey, privateBonds, bondState, inventory>>

CallSetEncryptionKey(org) ==
  /\ Idle
  /\ pending = <<>>
  /\ encryptionKey' = [encryptionKey EXCEPT ![org] = org]
  /\ last' = Outcome("", "")
  /\ UNCHANGED <<ledger, version, pending, settled, recent>>
  /\ UNCHANGED <<privateBonds, bondState, inventory>>

CallCreateBondPublic(org, r) ==
  Invoke("CreateBondPublic", org, NoArgs,
         CreateBondPublic(ledger, r.uid, r.ownerHash, r.bondID, r.cusip,
                          r.class1, r.originalFace))

CallCreateTrade(org, r) ==
  Invoke("CreateTrade", org, [NoArgs EXCEPT !.id = r.directTradeID],
         CreateTrade(ledger, r.directTradeID, r.bidderHash, r.cusip,
                     r.createdAtString, r.originalFace, r.bidPrice))

CallCloseDirectTrade(org, id) ==
  Invoke("CloseDirectTrade", org, [NoArgs EXCEPT !.id = id],
         CloseDirectTrade(ledger, org, id))

CallAnswerTrade(org, id, seller, value, ts) ==
  Invoke("AnswerTrade", org, AnswerArgs(id, seller, value, ts),
         AnswerTrade(ledger, id, seller, value, ts))

CallAnswerTradeAsOwner(org, id, seller, value, ts) ==
  Invoke("AnswerTradeAsOwner", org, AnswerArgs(id, seller, value, ts),
         AnswerTradeAsOwner(ledger, org, id, seller, value, ts))

CallCreateTransaction(org, r) ==
  Invoke("CreateTransaction", org, NoArgs,
         CreateTransaction(ledger, r.buyerID, r.sellerID, r.cusip,
                           r.originalFace, r.boughtPrice, r.timestamp))

Init ==
  /\ ledger = EmptyLedger
  /\ version = 0
  /\ encryptionKey = [o \in Orgs |-> NoKey]
  /\ pending = <<>>
  /\ last = Outcome("", "")
  /\ settled = <<>>
  /\ recent = <<>>
  /\ privateBonds = [o \in Orgs |-> <<>>]
  /\ bondState = [c \in Cusips |-> NoBond]
  /\ inventory = [o \in Orgs |-> <<>>]

Next ==
  \/ \E org \in Orgs : CallSetEncryptionKey(org)
  \/ \E org \in Orgs, r \in BondRequests : CallCreateBondPublic(org, r)
  \/ \E org \in Orgs, r \in TradeRequests : CallCreateTrade(org, r)
  \/ \E org \in Orgs, id \in TradeIDs : CallCloseDirectTrade(org, id)
  \/ \E org \in Orgs, id \in TradeIDs, seller \in Hashes, value \in AnswerValues,
        ts \in SellerTimes : CallAnswerTrade(org, id, seller, value, ts)
  \/ \E org \in Orgs, id \in TradeIDs, seller \in Hashes, value \in AnswerValues,
        ts \in BuyerTimes : CallAnswerTradeAsOwner(org, id, seller, value, ts)
  \/ \E org \in Orgs, r \in TransactionRequests : CallCreateTransaction(org, r)
  \/ Return

Spec == Init /\ [][Next]_vars

\* Buyer answers in flight together, on one trade and one bond.
ProposeAnswerTradeAsOwner(org, id, seller, value, ts) ==
  Endorse("AnswerTradeAsOwner", org, AnswerArgs(id, seller, value, ts),
          AnswerTradeAsOwner(ledger, org, id, seller, value, ts))

MVCCBond == CHOOSE r \in BondRequests : r.uid = "u1"
MVCCTrade == CHOOSE r \in TradeRequests : r.directTradeID = "t1"

NextMVCC ==
  \/ \E org \in Orgs : CallCreateBondPublic(org, MVCCBond)
  \/ \E org \in Orgs : CallCreateTrade(org, MVCCTrade)
  \/ \E org \in Orgs, seller \in Hashes, value \in AnswerValues, ts \in SellerTimes :
        CallAnswerTrade(org, "t1", seller, value, ts)
  \/ \E org \in Orgs, seller \in Hashes, value \in AnswerValues, ts \in BuyerTimes :
        ProposeAnswerTradeAsOwner(org, "t1", seller, value, ts)
  \/ Commit
  \/ Return

SpecMVCC == Init /\ [][NextMVCC]_vars

\* The life of a trade: creation, answers, close and settlement, over one bond.
NextTrades ==
  \/ \E org \in Orgs : CallSetEncryptionKey(org)
  \/ \E org \in Orgs : CallCreateBondPublic(org, MVCCBond)
  \/ \E org \in Orgs, r \in TradeRequests : CallCreateTrade(org, r)
  \/ \E org \in Orgs, id \in TradeIDs : CallCloseDirectTrade(org, id)
  \/ \E org \in Orgs, id \in TradeIDs, seller \in Hashes, value \in AnswerValues,
        ts \in SellerTimes : CallAnswerTrade(org, id, seller, value, ts)
  \/ \E org \in Orgs, id \in TradeIDs, seller \in Hashes, value \in AnswerValues,
        ts \in BuyerTimes : CallAnswerTradeAsOwner(org, id, seller, value, ts)
  \/ Return

SpecTrades == Init /\ [][NextTrades]_vars

\* The queries on trades and the ownership check, over trades that are
\* created and closed. A query writes nothing; its error reaches the caller.
CallCheckDirectTrades(org, cusip) ==
  /\ Idle
  /\ pending = <<>>
  \* the list goes to the caller; the query has no error of its own
  /\ Len(CheckDirectTrades(ledger, cusip)) <= Len(ledger.DirectTrades)
  /\ UNCHANGED vars

CallGetYourDirectTrades(org) ==
  /\ Idle
  /\ pending = <<>>
  /\ LET res == GetYourDirectTrades(ledger, org)
     IN last' = Outcome(IF res.err = "" THEN "" ELSE "GetYourDirectTrades", res.err)
  /\ UNCHANGED <<ledger, version, encryptionKey, pending, settled, recent>>
  /\ UNCHANGED <<privateBonds, bondState, inventory>>

NextQueries ==
  \/ \E org \in Orgs : CallSetEncryptionKey(org)
  \/ \E org \in Orgs, r \in TradeRequests : CallCreateTrade(org, r)
  \/ \E org \in Orgs, id \in TradeIDs : CallCloseDirectTrade(org, id)
  \/ \E org \in Orgs, cusip \in Cusips : CallCheckDirectTrades(org, cusip)
  \/ \E org \in Orgs : CallGetYourDirectTrades(org)
  \/ Return

SpecQueries == Init /\ [][NextQueries]_vars

\* Every invocation is made by one organization, the bidder of the trade; the
\* other organization invokes nothing.
SoleCaller == MVCCTrade.bidderHash

NextSoleCaller ==
  \/ CallSetEncryptionKey(SoleCaller)
  \/ \E r \in BondRequests : CallCreateBondPublic(SoleCaller, r)
  \/ CallCreateTrade(SoleCaller, MVCCTrade)
  \/ \E id \in TradeIDs : CallCloseDirectTrade(SoleCaller, id)
  \/ \E id \in TradeIDs, seller \in Hashes, value \in AnswerValues, ts \in SellerTimes :
        CallAnswerTrade(SoleCaller, id, seller, value, ts)
  \/ \E id \in TradeIDs, seller \in Hashes, value \in AnswerValues, ts \in BuyerTimes :
        CallAnswerTradeAsOwner(SoleCaller, id, seller, value, ts)
  \/ Return

SpecSoleCaller == Init /\ [][NextSoleCaller]_vars

\* Bonds and their private records: CreateBondPublic and CreateBondPrivate are
\* two transactions, GetBond is a query.
CallCreateBondPrivate(org, uid, reservePrice) ==
  /\ Idle
  /\ pending = <<>>
  /\ Len(privateBonds[org]) < MaxPrivate
  /\ LET res == CreateBondPrivate(privateBonds, org, uid, reservePrice)
     IN /\ privateBonds' = (IF res.err = "" THEN res.private ELSE privateBonds)
        /\ last' = Outcome(IF res.err = "" THEN "" ELSE "CreateBondPrivate", res.err)
  /\ UNCHANGED <<ledger, version, encryptionKey, pending, settled, recent>>
  /\ UNCHANGED <<bondState, inventory>>

CallGetBond(org, cusip) ==
  /\ Idle
  /\ pending = <<>>
  /\ LET res == GetBond(ledger, privateBonds, org, cusip)
     IN last' = Outcome(IF res.err = "" THEN "" ELSE "GetBond", res.err)
  /\ UNCHANGED <<ledger, version, encryptionKey, pending, settled, recent>>
  /\ UNCHANGED <<privateBonds, bondState, inventory>>

NextBonds ==
  \/ \E org \in Orgs, r \in BondRequests :
        Len(ledger.Bonds) < MaxBonds /\ CallCreateBondPublic(org, r)
  \/ \E org \in Orgs, uid \in UIDs, reservePrice \in ReservePrices :
        CallCreateBondPrivate(org, uid, reservePrice)
  \/ \E org \in Orgs, cusip \in Cusips : CallGetBond(org, cusip)
  \/ Return

SpecBonds == Init /\ [][NextBonds]_vars

\* The private partitions: secrets and private bond records of both
\* organizations, with the operations that read them.
PartitionPrice == CHOOSE p \in ReservePrices : \A q \in ReservePrices : p <= q

NextPartitions ==
  \/ \E org \in Orgs : CallSetEncryptionKey(org)
  \/ \E org \in Orgs : Len(ledger.Bonds) < MaxBonds /\ CallCreateBondPublic(org, MVCCBond)
  \/ \E org \in Orgs, uid \in UIDs : CallCreateBondPrivate(org, uid, PartitionPrice)
  \/ \E org \in Orgs, cusip \in Cusips : CallGetBond(org, cusip)
  \/ \E org \in Orgs : CallGetYourDirectTrades(org)
  \/ Return

SpecPartitions == Init /\ [][NextPartitions]_vars

\* What an organization holds: one bond, one trade on it up to its
\* settlement, the private records, and the list of the caller's bonds.
CallGetAllYourBonds(org) ==
  /\ Idle
  /\ pending = <<>>
  /\ LET res == GetAllYourBonds(ledger, privateBonds, org)
     IN last' = Outcome(IF res.err = "" THEN "" ELSE "GetAllYourBonds", res.err)
  /\ UNCHANGED <<ledger, version, encryptionKey, pending, settled, recent>>
  /\ UNCHANGED <<privateBonds, bondState, inventory>>

NextHoldings ==
  \/ \E org \in Orgs : CallSetEncryptionKey(org)
  \/ \E org \in Orgs : CallCreateBondPublic(org, MVCCBond)
  \/ \E org \in Orgs : CallCreateBondPrivate(org, MVCCBond.uid, PartitionPrice)
  \/ \E org \in Orgs : CallCreateTrade(org, MVCCTrade)
  \/ \E org \in Orgs, seller \in Hashes, value \in AnswerValues, ts \in SellerTimes :
        CallAnswerTrade(org, MVCCTrade.directTradeID, seller, value, ts)
  \/ \E org \in Orgs, seller \in Hashes, value \in AnswerValues, ts \in BuyerTimes :
        CallAnswerTradeAsOwner(org, MVCCTrade.directTradeID, seller, value, ts)
  \/ \E org \in Orgs : CallGetAllYourBonds(org)
  \/ Return

SpecHoldings == Init /\ [][NextHoldings]_vars

\* The inventory variant: CreateBond and AddToInventory.
CallCreateBond(org, bondJSON, now, fault) ==
  /\ Idle
  /\ pending = <<>>
  /\ Len(inventory[org]) < MaxInventory
  /\ LET res == CreateBond(bondState, inventory, org, bondJSON, now, fault)
     IN /\ bondState' = (IF res.err = "" THEN res.bondState ELSE bondState)
        /\ inventory' = (IF res.err = "" THEN res.inventory ELSE inventory)
        /\ last' = Outcome(IF res.err = "" THEN "" ELSE "CreateBond", res.err)
  /\ UNCHANGED <<ledger, version, encryptionKey, pending, settled, recent>>
  /\ UNCHANGED privateBonds

CallAddToInventory(org, bondJSON, now, fault) ==
  /\ Idle
  /\ pending = <<>>
  /\ Len(inventory[org]) < MaxInventory
  /\ LET res == AddToInventory(inventory, org, bondJSON, now, fault)
     IN /\ inventory' = (IF res.err = "" THEN res.inventory ELSE inventory)
        /\ last' = Outcome(IF res.err = "" THEN "" ELSE "AddToInventory", res.err)
  /\ UNCHANGED <<ledger, version, encryptionKey, pending, settled, recent>>
  /\ UNCHANGED <<privateBonds, bondState>>

NextInventory ==
  \/ \E org \in Orgs, bondJSON \in BondJSONs \cup {InvalidJSON},
        now \in InventoryTimes, fault \in BOOLEAN :
        CallCreateBond(org, bondJSON, now, fault)
  \/ \E org \in Orgs, bondJSON \in BondJSONs \cup {InvalidJSON},
        now \in InventoryTimes, fault \in BOOLEAN :
        CallAddToInventory(org, bondJSON, now, fault)
  \/ Return

SpecInventory == Init /\ [][NextInventory]_vars


\* ------------------------------------------------------------------------
\* Claims
\* ------------------------------------------------------------------------
Trades == ledger.DirectTrades
Bonds == ledger.Bonds
Transactions == ledger.Transactions

\* A Transaction reads as the settlement of trade t.
IsTransactionOf(tx, t) ==
  /\ tx.BuyerID = t.BidderHash
  /\ tx.Cusip = t.Cusip
  /\ tx.OriginalFace = t.OriginalFace
  /\ tx.BoughtPrice = FormatPrice(t.BidPrice)

\* C1: settlement is all-or-nothing. Every Transaction in the committed ledger
\* is the Transaction of a trade that is Closed (none belongs to a trade that is
\* still Open only), and every trade a settlement was applied to is Closed.
C1_SettlementAllOrNothing ==
  /\ \A n \in 1..Len(Transactions) :
       \E i \in 1..Len(Trades) :
          /\ Trades[i].State = "Closed"
          /\ IsTransactionOf(Transactions[n], Trades[i])
  /\ \A i \in 1..Len(Trades) : settled[i] > 0 => Trades[i].State = "Closed"

\* C2: a trade entry that is Closed is Closed in every later committed state.
C2_ClosedNeverReopens ==
  [][\A i \in 1..Len(Trades) :
       Trades[i].State = "Closed" =>
          /\ i <= Len(ledger'.DirectTrades)
          /\ ledger'.DirectTrades[i].State = "Closed"]_vars

\* A buyer answer was refused on a Closed trade: an operation ran after the close.
C2_Witness ==
  /\ last = Outcome("AnswerTradeAsOwner", ErrTradeClosed)
  /\ \E i \in 1..Len(Trades) : Trades[i].State = "Closed"

\* The buyer answer (org, id, seller, value, ts) is invoked by an organization
\* that is not the bidder of the trade the id names.
ForeignBuyerAnswer(org, id) ==
  /\ FindTrade(Trades, id) # 0
  /\ Trades[FindTrade(Trades, id)].BidderHash # org

Stale(p) == p.readVersion # version

\* The invocation of a queued proposal, executed again on the committed ledger.
ReExecuted(p) ==
  AnswerTradeAsOwner(ledger, p.org, p.args.id, p.args.seller, p.args.value,
                     p.args.ts)

TradeOf(id) == Trades[FindTrade(Trades, id)]

\* C4 as stated: of the buyer answers that read one version, the one that is
\* invalidated finds, when executed again, its trade Closed and fails with the
\* trade-closed error; no trade is settled twice.
C4_RetryAlwaysFindsClosed ==
  /\ \A i \in 1..Len(Trades) : settled[i] <= 1
  /\ \A k \in 1..Len(pending) :
       Stale(pending[k]) => ReExecuted(pending[k]).err = ErrTradeClosed

\* C4 amended: no trade is settled twice, and when the buyer answer that
\* committed has settled the trade, the invalidated one, executed again, fails
\* with the trade-closed error and writes nothing.
C4_SettledAtMostOnce ==
  /\ \A i \in 1..Len(Trades) : settled[i] <= 1
  /\ \A k \in 1..Len(pending) :
       (Stale(pending[k]) /\ TradeOf(pending[k].args.id).State = "Closed")
       => /\ ReExecuted(pending[k]).err = ErrTradeClosed
          /\ Committed(ledger, ReExecuted(pending[k])) = ledger

\* A buyer "yes" is queued and invalidated while its trade was settled by the
\* other buyer answer.
C4_Witness ==
  \E k \in 1..Len(pending) :
     /\ Stale(pending[k])
     /\ pending[k].args.value = "yes"
     /\ pending[k].res.settled # 0
     /\ settled[pending[k].res.settled] = 1

\* ---- C5: the settlement
SellerSaidYes(t, seller) ==
  \E k \in 1..Len(t.Answers) :
     /\ t.Answers[k].SellerIDHash = seller
     /\ t.Answers[k].SellerResponse.Value = "yes"

\* The bidder org answers for seller on the Open trade the id names.
OwnBuyerAnswer(org, id) ==
  /\ FindTrade(Trades, id) # 0
  /\ TradeOf(id).State = "Open"
  /\ TradeOf(id).BidderHash = org

OwnsBond(seller) == \E b \in 1..Len(Bonds) : Bonds[b].OwnerHash = seller

\* What the claim says of the ledger l2 left by a settling buyer answer,
\* but for the price.
SettledAs(l2, id, seller, ts) ==
  LET i == FindTrade(Trades, id)
      t == Trades[i]
      tx == l2.Transactions[Len(l2.Transactions)]
  IN /\ l2.DirectTrades[i].State = "Closed"
     /\ \E b \in 1..Len(Bonds) :
          /\ Bonds[b].OwnerHash = seller
          /\ l2.Bonds = [Bonds EXCEPT ![b].OwnerHash = t.BidderHash]
     /\ Len(l2.Transactions) = Len(Transactions) + 1
     /\ SubSeq(l2.Transactions, 1, Len(Transactions)) = Transactions
     /\ tx.BuyerID = t.BidderHash
     /\ tx.SellerID = seller
     /\ tx.Cusip = t.Cusip
     /\ tx.OriginalFace = t.OriginalFace
     /\ tx.Timestamp = ts

LastTransaction(l2) == l2.Transactions[Len(l2.Transactions)]

\* C5 as stated: the buyer's "yes" on a seller's "yes" closes the trade, hands
\* one bond of the seller to the bidder and appends one Transaction whose
\* boughtPrice is the trade's bidPrice.
C5_SettlementAtBidPrice ==
  \A org \in Orgs, id \in TradeIDs, seller \in Hashes, ts \in BuyerTimes :
     (OwnBuyerAnswer(org, id) /\ SellerSaidYes(TradeOf(id), seller)
        /\ OwnsBond(seller))
     => LET res == AnswerTradeAsOwner(ledger, org, id, seller, "yes", ts)
        IN /\ res.err = ""
           /\ SettledAs(Committed(ledger, res), id, seller, ts)
           /\ PriceOfString(LastTransaction(res.ledger).BoughtPrice)
                = TradeOf(id).BidPrice

\* C5 amended: the same, with boughtPrice the bidPrice formatted with two
\* decimals (rounded to hundredths).
C5_SettlementAtFormattedPrice ==
  \A org \in Orgs, id \in TradeIDs, seller \in Hashes, ts \in BuyerTimes :
     (OwnBuyerAnswer(org, id) /\ SellerSaidYes(TradeOf(id), seller)
        /\ OwnsBond(seller))
     => LET res == AnswerTradeAsOwner(ledger, org, id, seller, "yes", ts)
        IN /\ res.err = ""
           /\ SettledAs(Committed(ledger, res), id, seller, ts)
           /\ LastTransaction(res.ledger).BoughtPrice
                = FormatPrice(TradeOf(id).BidPrice)

\* A settlement was committed: its trade is Closed, the bidder owns a bond and
\* the Transaction of the trade is the newest one.
C5_Witness ==
  \E i \in 1..Len(Trades) :
     /\ settled[i] = 1
     /\ Trades[i].State = "Closed"
     /\ OwnsBond(Trades[i].BidderHash)
     /\ Transactions # <<>>
     /\ IsTransactionOf(LastTransaction(ledger), Trades[i])

\* ---- C6: who may answer as a seller
HoldsBondOfCusip(org, cusip) ==
  \E b \in 1..Len(Bonds) :
     /\ Bonds[b].Cusip = cusip
     /\ Bonds[b].OwnerHash = org

\* C6: a seller answer by an organization that owns no bond of the trade's
\* cusip fails with the not-the-owner error and records no answer.
C6_SellerMustHoldBond ==
  \A org \in Orgs, id \in TradeIDs, seller \in Hashes, value \in AnswerValues,
     ts \in SellerTimes :
     (FindTrade(Trades, id) # 0 /\ ~HoldsBondOfCusip(org, TradeOf(id).Cusip))
     => LET res == AnswerTrade(ledger, id, seller, value, ts)
        IN /\ res.err = ErrNotOwner
           /\ Committed(ledger, res) = ledger

\* ---- C7: what a seller answer writes
\* C7: a successful seller answer for a seller sets that Answer's
\* sellerResponse to the value and timestamp given, empties its buyerResponse,
\* and leaves the Answers of the other sellers as they were.
C7_SellerAnswerResetsBuyer ==
  \A id \in TradeIDs, seller \in Hashes, value \in AnswerValues,
     ts \in SellerTimes :
     LET res == AnswerTrade(ledger, id, seller, value, ts)
         i == FindTrade(Trades, id)
     IN res.err = "" =>
        LET old == Trades[i].Answers
            new == Committed(ledger, res).DirectTrades[i].Answers
            k == FindAnswer(new, seller)
        IN /\ k # 0
           /\ new[k].SellerResponse = [Value |-> value, Timestamp |-> ts]
           /\ new[k].BuyerResponse = NoResponse
           /\ Len(new) = Len(old) + (IF FindAnswer(old, seller) = 0 THEN 1 ELSE 0)
           /\ \A j \in 1..Len(old) :
                old[j].SellerIDHash # seller => new[j] = old[j]

\* A seller's answer stands with an empty buyerResponse next to the Answer of
\* another seller, whose buyerResponse is kept.
C7_Witness ==
  \E i \in 1..Len(Trades) :
     \E j, k \in 1..Len(Trades[i].Answers) :
        /\ j # k
        /\ recent[i][Trades[i].Answers[k].SellerIDHash] # ""
        /\ Trades[i].Answers[k].SellerResponse.Value # ""
        /\ Trades[i].Answers[k].BuyerResponse = NoResponse
        /\ Trades[i].Answers[j].BuyerResponse.Value # ""

\* ---- C8: no settlement on a stale "yes"
\* The step settles trade entry i for seller: the entry goes from Open to
\* Closed and a Transaction naming the seller is appended.
SettlesFor(i, seller) ==
  /\ Trades[i].State = "Open"
  /\ ledger'.DirectTrades[i].State = "Closed"
  /\ Len(ledger'.Transactions) = Len(Transactions) + 1
  /\ LastTransaction(ledger').SellerID = seller

\* C8: a trade is settled for a seller only by a buyer answer "yes" for that
\* seller, taken while the seller's latest answer is "yes".
C8_NoStaleSettlement ==
  [][\A i \in 1..Len(Trades), seller \in Hashes :
       SettlesFor(i, seller) =>
          /\ recent[i][seller] = "yes"
          /\ \E org \in Orgs, ts \in BuyerTimes :
               CallAnswerTradeAsOwner(org, Trades[i].DirectTradeID, seller,
                                      "yes", ts)]_vars

\* The buyer said "yes" after the seller's "no", the seller owns a bond, and
\* the trade is still Open.
C8_Witness ==
  \E i \in 1..Len(Trades), k \in 1..Len(Bonds) :
     \E j \in 1..Len(Trades[i].Answers) :
        /\ Trades[i].State = "Open"
        /\ Bonds[k].OwnerHash = Trades[i].Answers[j].SellerIDHash
        /\ recent[i][Trades[i].Answers[j].SellerIDHash] = "no"
        /\ Trades[i].Answers[j].BuyerResponse.Value = "yes"

\* ---- C9: mutual "yes" without a bond of the seller
\* C9: a buyer "yes" on a seller's "yes", when no bond has the seller as
\* owner, fails with the seller-owns-no-bond error and leaves the committed
\* ledger as it was.
C9_SettlementFailedChangesNothing ==
  \A org \in Orgs, id \in TradeIDs, seller \in Hashes, ts \in BuyerTimes :
     (OwnBuyerAnswer(org, id) /\ SellerSaidYes(TradeOf(id), seller)
        /\ ~OwnsBond(seller))
     => LET res == AnswerTradeAsOwner(ledger, org, id, seller, "yes", ts)
        IN /\ res.err = ErrNoBond
           /\ Committed(ledger, res) = ledger

\* The buyer's "yes" on a seller's "yes" was refused for want of a bond: the
\* trade is Open and the Answer holds no buyer "yes".
C9_Witness ==
  /\ last = Outcome("AnswerTradeAsOwner", ErrNoBond)
  /\ \E i \in 1..Len(Trades) :
        /\ Trades[i].State = "Open"
        /\ \E j \in 1..Len(Trades[i].Answers) :
              /\ Trades[i].Answers[j].SellerResponse.Value = "yes"
              /\ Trades[i].Answers[j].BuyerResponse.Value # "yes"
              /\ ~OwnsBond(Trades[i].Answers[j].SellerIDHash)

\* ---- C10: seller answers on a missing or a Closed trade
\* C10: a seller answer on an id no trade has fails with the not-found error,
\* one on a Closed trade fails with the trade-closed error, and neither
\* changes the ledger.
C10_SellerAnswerNeedsOpenTrade ==
  \A id \in TradeIDs, seller \in Hashes, value \in AnswerValues,
     ts \in SellerTimes :
     LET res == AnswerTrade(ledger, id, seller, value, ts)
     IN /\ FindTrade(Trades, id) = 0
           => (res.err = ErrTradeNotFound /\ Committed(ledger, res) = ledger)
        /\ (FindTrade(Trades, id) # 0 /\ TradeOf(id).State = "Closed")
           => (res.err = ErrTradeClosed /\ Committed(ledger, res) = ledger)


\* ---- C11: buyer answers on a missing or a Closed trade
\* C11: a buyer answer on an id no trade has, or on a trade that is Closed,
\* fails and leaves the ledger as it was, whoever calls (the bidder included);
\* no buyer answer changes a trade entry that is Closed.
C11_BuyerAnswerNeedsOpenTrade ==
  \A org \in Orgs, id \in TradeIDs, seller \in Hashes, value \in AnswerValues,
     ts \in BuyerTimes :
     LET res == AnswerTradeAsOwner(ledger, org, id, seller, value, ts)
         after == Committed(ledger, res)
     IN /\ FindTrade(Trades, id) = 0
           => (res.err = ErrTradeNotFound /\ after = ledger)
        /\ (FindTrade(Trades, id) # 0 /\ TradeOf(id).State = "Closed")
           => (res.err = ErrTradeClosed /\ after = ledger)
        /\ \A i \in 1..Len(Trades) :
              Trades[i].State = "Closed" => after.DirectTrades[i] = Trades[i]

\* A buyer answer was refused on a trade that a settlement had closed.
C11_Witness ==
  /\ last = Outcome("AnswerTradeAsOwner", ErrTradeClosed)
  /\ \E i \in 1..Len(Trades) :
        /\ Trades[i].State = "Closed"
        /\ settled[i] = 1
        /\ FindTrade(Trades, Trades[i].DirectTradeID) = i

\* ---- C12: who may close a trade
\* C12: a close by an organization whose stored secret is not the trade's
\* bidderHash (or that has stored none) fails with the not-the-owner error and
\* leaves the ledger, the trade's state included, as it was; a close of an id
\* no trade has fails with the not-found error.
C12_ForeignCloseRefused ==
  \A org \in Orgs, id \in TradeIDs :
     LET res == CloseDirectTrade(ledger, org, id)
     IN /\ FindTrade(Trades, id) = 0
           => (res.err = ErrTradeNotFound /\ Committed(ledger, res) = ledger)
        /\ (FindTrade(Trades, id) # 0
              /\ encryptionKey[org] # TradeOf(id).BidderHash)
           => (res.err = ErrNotOwner /\ Committed(ledger, res) = ledger)

\* A close was refused for want of ownership, and the trade is Open.
C12_Witness ==
  /\ last = Outcome("CloseDirectTrade", ErrNotOwner)
  /\ \E i \in 1..Len(Trades) :
        /\ Trades[i].State = "Open"
        /\ \E org \in Orgs : encryptionKey[org] \notin {NoKey, Trades[i].BidderHash}

\* ---- C13: a trade is closed once
\* C13: a close of a trade that is already Closed does not succeed.
C13_CloseNeedsOpenTrade ==
  \A org \in Orgs, id \in TradeIDs :
     (FindTrade(Trades, id) # 0 /\ TradeOf(id).State = "Closed")
     => CloseDirectTrade(ledger, org, id).err # ""

\* ---- C14: what a close writes
\* C14: a successful close sets the state of the trade the id names to Closed
\* and changes nothing else: the bonds, the transactions, the answers of the
\* trade and the other trades are as before.
C14_CloseChangesStateOnly ==
  \A org \in Orgs, id \in TradeIDs :
     LET res == CloseDirectTrade(ledger, org, id)
         i == FindTrade(Trades, id)
     IN res.err = "" =>
        /\ i # 0
        /\ res.ledger.Bonds = Bonds
        /\ res.ledger.Transactions = Transactions
        /\ Len(res.ledger.DirectTrades) = Len(Trades)
        /\ \A j \in 1..Len(Trades) :
              res.ledger.DirectTrades[j] =
                 IF j = i THEN [Trades[j] EXCEPT !.State = "Closed"] ELSE Trades[j]

\* A trade with answers was closed by hand (no settlement closed it), with a
\* bond in the ledger.
C14_Witness ==
  \E i \in 1..Len(Trades) :
     /\ Trades[i].State = "Closed"
     /\ settled[i] = 0
     /\ Trades[i].Answers # <<>>
     /\ Bonds # <<>>

\* ---- C15: what CreateTrade writes
\* C15: a successful CreateTrade appends one trade, Open, without answers, with
\* the cusip, originalFace, bidPrice and (parsed) createdAt given, and leaves
\* the bonds, the transactions and the trades already there as they were.
C15_CreateTradeAppendsOpenTrade ==
  \A r \in TradeRequests :
     LET res == CreateTrade(ledger, r.directTradeID, r.bidderHash, r.cusip,
                            r.createdAtString, r.originalFace, r.bidPrice)
         new == res.ledger.DirectTrades
     IN res.err = "" =>
        /\ res.ledger.Bonds = Bonds
        /\ res.ledger.Transactions = Transactions
        /\ Len(new) = Len(Trades) + 1
        /\ SubSeq(new, 1, Len(Trades)) = Trades
        /\ new[Len(new)].State = "Open"
        /\ new[Len(new)].Answers = <<>>
        /\ new[Len(new)].Cusip = r.cusip
        /\ new[Len(new)].OriginalFace = r.originalFace
        /\ new[Len(new)].BidPrice = r.bidPrice
        /\ new[Len(new)].CreatedAt = ParseTime(r.createdAtString).t
        /\ new[Len(new)].CreatedAt # ZeroTime

\* A trade was created, Open and without answers, after a trade that has
\* answers and a bond.
C15_Witness ==
  \E i, j \in 1..Len(Trades) :
     /\ i < j
     /\ Trades[i].Answers # <<>>
     /\ Trades[j].State = "Open"
     /\ Trades[j].Answers = <<>>
     /\ Trades[j].CreatedAt # ZeroTime
     /\ Bonds # <<>>

\* ---- C16: trade ids
\* C16: no two trades of the ledger have the same DirectTradeID.
C16_TradeIDsUnique ==
  \A i, j \in 1..Len(Trades) :
     Trades[i].DirectTradeID = Trades[j].DirectTradeID => i = j


\* ---- C17: bond keys
\* C17: no two bonds of the ledger have the same uid (a CreateBond for a key
\* that exists fails and leaves the bond that has it as it was).
C17_BondKeysUnique ==
  \A i, j \in 1..Len(Bonds) : Bonds[i].UID = Bonds[j].UID => i = j

\* ---- C18: a bond and its private record
\* C18: every bond a successful creation has stored has its private record:
\* a bond under a cusip key is in the inventory of an organization, and a bond
\* of the ledger document has a PrivateBond of its uid in a partition.
C18_PublicBondHasPrivateRecord ==
  /\ \A c \in Cusips :
        bondState[c] # NoBond
        => \E o \in Orgs : \E k \in 1..Len(inventory[o]) :
              inventory[o][k].Content.Cusip = c
  /\ \A b \in 1..Len(Bonds) :
        \E o \in Orgs : \E k \in 1..Len(privateBonds[o]) :
           privateBonds[o][k].UID = Bonds[b].UID

\* ---- C19: the reserve price stays in the partition of its organization
\* The partitions but the one of org.
OthersView(pb, org) == [o \in Orgs \ {org} |-> pb[o]]

\* The partitions of a run in which org supplied the reserve price q wherever
\* it supplied one.
WithPrices(pb, org, q) ==
  [pb EXCEPT ![org] = [k \in 1..Len(pb[org]) |-> [pb[org][k] EXCEPT !.ReservePrice = q]]]

\* What the organizations other than org get from the chaincode in the state
\* with partitions pb: their own partitions and the results of their GetBond.
ObservedByOthers(pb, org) ==
  [partitions |-> OthersView(pb, org),
   queries |-> [o \in Orgs \ {org}, c \in Cusips |-> GetBond(ledger, pb, o, c)]]

BondsOfCusip(cusip) == SelectSeq(Bonds, LAMBDA b : b.Cusip = cusip)

\* C20: GetBond of a cusip that some bond has succeeds for every caller and
\* returns every bond of the cusip, whether or not the caller has a private
\* record of it.
C20_GetBondToleratesMissingPrivate ==
  \A org \in Orgs, cusip \in Cusips :
     BondsOfCusip(cusip) # <<>>
     => LET res == GetBond(ledger, privateBonds, org, cusip)
        IN /\ res.err = ""
           /\ Len(res.result) = Len(BondsOfCusip(cusip))
           /\ \A k \in 1..Len(res.result) :
                 res.result[k].Public = BondsOfCusip(cusip)[k]

\* ---- C21: the transaction list
\* C21: in every step the transaction list keeps the previous list as a prefix,
\* and it grows only in a settlement: a step in which a trade entry goes from
\* Open to Closed.
C21_TransactionsAppendOnlyBySettlement ==
  [][/\ Len(ledger'.Transactions) >= Len(Transactions)
     /\ SubSeq(ledger'.Transactions, 1, Len(Transactions)) = Transactions
     /\ Len(ledger'.Transactions) > Len(Transactions)
        => \E i \in 1..Len(Trades), seller \in Hashes : SettlesFor(i, seller)]_vars

\* ---- C22: what the trade operations do to the bonds
\* The bonds whose ownerHash differs between the ledger and the next ledger.
OwnerChanged ==
  {b \in 1..Len(Bonds) :
     b <= Len(ledger'.Bonds) /\ ledger'.Bonds[b].OwnerHash # Bonds[b].OwnerHash}

\* C22: a step that changes the trades leaves the number of bonds as it was;
\* every step leaves each bond's uid, name, cusip, originalFace and class as
\* they were; an ownerHash changes only in a settlement, and every settlement
\* changes the ownerHash of exactly one bond.
C22_OwnerChangesOncePerSettlement ==
  [][/\ ledger'.DirectTrades # Trades => Len(ledger'.Bonds) = Len(Bonds)
     /\ \A b \in 1..Len(Bonds) :
           /\ b <= Len(ledger'.Bonds)
           /\ [ledger'.Bonds[b] EXCEPT !.OwnerHash = Bonds[b].OwnerHash] = Bonds[b]
     /\ OwnerChanged # {}
        => \E i \in 1..Len(Trades), seller \in Hashes : SettlesFor(i, seller)
     /\ \A i \in 1..Len(Trades), seller \in Hashes :
           SettlesFor(i, seller) => Cardinality(OwnerChanged) = 1]_vars

\* ---- C23: one Answer per seller and trade
\* No two entries of the answers have the same sellerIDHash.
OneAnswerPerSeller(answers) ==
  \A j, k \in 1..Len(answers) :
     answers[j].SellerIDHash = answers[k].SellerIDHash => j = k

\* What C23 says of the ledger l2 a successful answer for seller on the trade
\* id has written: the seller has one entry, and no entry was added when the
\* seller had one.
AnswerKeptUnique(l2, id, seller) ==
  LET i == FindTrade(Trades, id)
      old == Trades[i].Answers
      new == l2.DirectTrades[i].Answers
  IN /\ OneAnswerPerSeller(new)
     /\ FindAnswer(new, seller) # 0
     /\ FindAnswer(old, seller) # 0 => Len(new) = Len(old)
     /\ FindAnswer(old, seller) = 0 => Len(new) = Len(old) + 1

\* C23: no trade of the ledger has two Answers of one seller, and a successful
\* seller or buyer answer leaves it so: it updates the seller's entry when
\* there is one and adds one entry when there is none.
C23_OneAnswerPerSellerAndTrade ==
  /\ \A i \in 1..Len(Trades) : OneAnswerPerSeller(Trades[i].Answers)
  /\ \A id \in TradeIDs, seller \in Hashes, value \in AnswerValues :
        /\ \A ts \in SellerTimes :
              LET res == AnswerTrade(ledger, id, seller, value, ts)
              IN res.err = "" => AnswerKeptUnique(res.ledger, id, seller)
        /\ \A org \in Orgs, ts \in BuyerTimes :
              LET res == AnswerTradeAsOwner(ledger, org, id, seller, value, ts)
              IN res.err = "" => AnswerKeptUnique(res.ledger, id, seller)

\* A trade has the Answers of two sellers, and one of them was answered twice:
\* by the seller and by the buyer.
C23_Witness ==
  \E i \in 1..Len(Trades) :
     /\ Len(Trades[i].Answers) = 2
     /\ \E k \in 1..2 :
           /\ Trades[i].Answers[k].SellerResponse.Value # ""
           /\ Trades[i].Answers[k].BuyerResponse.Value # ""

\* ---- C24: CheckDirectTrades
\* The entries of the ledger that are Open trades of the cusip.
OpenTradesOf(cusip) ==
  {i \in 1..Len(Trades) : Trades[i].Cusip = cusip /\ Trades[i].State = "Open"}

\* C24: CheckDirectTrades(cusip) returns the Open trades of the cusip and
\* nothing else: every trade returned has the cusip and is Open, every Open
\* trade of the cusip in the ledger is returned, and each once.
C24_CheckDirectTradesOpenOfCusip ==
  \A cusip \in Cusips :
     LET res == CheckDirectTrades(ledger, cusip)
     IN /\ \A k \in 1..Len(res) : res[k].Cusip = cusip /\ res[k].State = "Open"
        /\ \A i \in OpenTradesOf(cusip) : \E k \in 1..Len(res) : res[k] = Trades[i]
        /\ Len(res) = Cardinality(OpenTradesOf(cusip))

\* The ledger has an Open and a Closed trade of one cusip and a trade of
\* another cusip: the query returns one trade of three.
C24_Witness ==
  \E cusip \in Cusips :
     /\ Len(CheckDirectTrades(ledger, cusip)) = 1
     /\ \E i \in 1..Len(Trades) : Trades[i].Cusip = cusip /\ Trades[i].State = "Closed"
     /\ \E i \in 1..Len(Trades) : Trades[i].Cusip # cusip

\* ---- C25: GetYourDirectTrades
\* The trade is in the list GetYourDirectTrades returns to org from ledger l.
ReturnedTo(l, org, trade) ==
  LET res == GetYourDirectTrades(l, org)
  IN res.err = "" /\ \E k \in 1..Len(res.result) : res.result[k] = trade

\* C25: GetYourDirectTrades returns to an organization the trades, Open or
\* Closed, whose bidderHash is its derived pseudo-identity and no other trade;
\* and the trade a successful CreateTrade has appended is returned to the
\* organization that invoked it and to no other organization (the
\* organizations having stored their secrets).
C25_YourTradesAreTheOnesYouCreated ==
  /\ [](\A org \in Orgs :
          LET res == GetYourDirectTrades(ledger, org)
              own == {i \in 1..Len(Trades) : Trades[i].BidderHash = GenerateOrgHash(org)}
          IN res.err = "" =>
             /\ \A k \in 1..Len(res.result) :
                   res.result[k].BidderHash = GenerateOrgHash(org)
             /\ \A i \in own : \E k \in 1..Len(res.result) : res.result[k] = Trades[i]
             /\ Len(res.result) = Cardinality(own))
  /\ [][\A org \in Orgs, r \in TradeRequests :
          (/\ CallCreateTrade(org, r)
           /\ version' = version + 1
           /\ \A o \in Orgs : encryptionKey[o] # NoKey)
          => \A o \in Orgs :
                ReturnedTo(ledger', o, ledger'.DirectTrades[Len(ledger'.DirectTrades)])
                  <=> o = org]_vars

\* ---- C26: IsOwner
\* The hashes IsOwner is asked about: those of the organizations and the
\* empty string.
CandidateHashes == Hashes \cup {""}

\* C26: IsOwner is true of a hash exactly when the caller has stored a secret
\* and the hash is the pseudo-identity GenerateOrgHash derives from it; it is
\* false of every hash while the caller has stored none; and the derivation
\* gives the same hash as long as the stored secret is the same.
C26_IsOwnerIffDerivedHash ==
  /\ [](\A org \in Orgs, h \in CandidateHashes :
          /\ IsOwner(org, h)
               <=> (encryptionKey[org] # NoKey /\ h = GenerateOrgHash(org))
          /\ encryptionKey[org] = NoKey => ~IsOwner(org, h))
  /\ [][\A org \in Orgs :
          encryptionKey'[org] = encryptionKey[org]
          => /\ GenerateOrgHash(org)' = GenerateOrgHash(org)
             /\ \A h \in CandidateHashes : IsOwner(org, h)' = IsOwner(org, h)]_vars

\* One organization has closed its trade, and the close of an organization
\* that has stored a secret, another one, was refused on a trade still Open.
C26_Witness ==
  /\ last = Outcome("CloseDirectTrade", ErrNotOwner)
  /\ \E i, j \in 1..Len(Trades) :
        /\ Trades[i].State = "Closed"
        /\ \E org \in Orgs : IsOwner(org, Trades[i].BidderHash)
        /\ Trades[j].State = "Open"
        /\ \E org \in Orgs :
              encryptionKey[org] # NoKey /\ ~IsOwner(org, Trades[j].BidderHash)

\* ---- C27: the bidderHash of a trade
CreatedAtStrings == {r.createdAtString : r \in TradeRequests}

\* The trade a successful CreateTrade appends for the request r made at s.
TradeCreatedAt(r, s) ==
  LET res == CreateTrade(ledger, r.directTradeID, r.bidderHash, r.cusip, s,
                         r.originalFace, r.bidPrice)
  IN res.ledger.DirectTrades[Len(res.ledger.DirectTrades)]

\* C27: when an organization has created a trade, the trade the same
\* organization would have created with the same request at another
\* createdAt has another bidderHash.
C27_BidderHashVariesWithCreatedAt ==
  [][\A org \in Orgs, r \in TradeRequests :
       (CallCreateTrade(org, r) /\ version' = version + 1)
       => \A s \in CreatedAtStrings :
             (ParseTime(s).ok /\ ParseTime(s).t # ParseTime(r.createdAtString).t)
             => TradeCreatedAt(r, s).BidderHash
                  # ledger'.DirectTrades[Len(ledger'.DirectTrades)].BidderHash]_vars

\* ---- C28: the operations are functions of the stored state and the request
\* C28: a state-changing operation of the inventory variant writes what its
\* request and the stored state determine: the state a CreateBond or an
\* AddToInventory step has written is the one the same request, from the same
\* stored state (with the same answer of the store), writes at any other
\* reading of the peer's clock.
C28_SameRequestSameWrite ==
  [][\A org \in Orgs, bondJSON \in BondJSONs, now \in InventoryTimes, fault \in BOOLEAN :
       /\ CallAddToInventory(org, bondJSON, now, fault)
          => \A again \in InventoryTimes :
                LET res == AddToInventory(inventory, org, bondJSON, again, fault)
                IN inventory' = IF res.err = "" THEN res.inventory ELSE inventory
       /\ CallCreateBond(org, bondJSON, now, fault)
          => \A again \in InventoryTimes :
                LET res == CreateBond(bondState, inventory, org, bondJSON, again, fault)
                IN /\ inventory' = IF res.err = "" THEN res.inventory ELSE inventory
                   /\ bondState' = IF res.err = "" THEN res.bondState ELSE bondState]_vars

\* ---- C29: the private partitions are isolated
\* The partitions as the operations of org find them when the other
\* organizations have stored nothing.
OnlyOwn(pb, org) == [o \in Orgs |-> IF o = org THEN pb[o] ELSE <<>>]

\* C29: what an operation returns to, and stores for, its caller does not
\* depend on the partition of another organization; and a step changes the
\* stored secret of an organization only as that organization's
\* SetEncryptionKey, and its private bond records only as that organization's
\* CreateBondPrivate.
C29_PartitionsIsolated ==
  /\ [](\A org \in Orgs :
          /\ \A cusip \in Cusips :
                GetBond(ledger, privateBonds, org, cusip)
                  = GetBond(ledger, OnlyOwn(privateBonds, org), org, cusip)
          /\ \A uid \in UIDs :
                /\ getPrivateBond(privateBonds, org, uid)
                     = getPrivateBond(OnlyOwn(privateBonds, org), org, uid)
                /\ CreateBondPrivate(privateBonds, org, uid, PartitionPrice).private[org]
                     = CreateBondPrivate(OnlyOwn(privateBonds, org), org, uid,
                                         PartitionPrice).private[org])
  /\ [][\A org \in Orgs :
          /\ encryptionKey'[org] # encryptionKey[org] => CallSetEncryptionKey(org)
          /\ privateBonds'[org] # privateBonds[org]
             => \E uid \in UIDs : CallCreateBondPrivate(org, uid, PartitionPrice)]_vars

\* Both organizations have stored a secret and private bond records, of
\* different bonds, and one of them more than once.
C29_Witness ==
  /\ \A org \in Orgs : encryptionKey[org] # NoKey /\ privateBonds[org] # <<>>
  /\ privateBonds["Org1MSP"][1].UID # privateBonds["Org2MSP"][1].UID
  /\ \E org \in Orgs : Len(privateBonds[org]) > 1

\* ---- C30: a buyer answer that does not complete the agreement
\* C30: the bidder's answer on its Open trade, when it is not "yes" or the
\* seller's response is not "yes" (the seller having no Answer included),
\* succeeds, sets the value and timestamp as the buyerResponse of the seller's
\* Answer (a new one with an empty sellerResponse when there was none), and
\* changes nothing else: the trade stays Open, the bonds, the transactions,
\* the other trades and the other Answers are as before.
C30_BuyerAnswerWithoutAgreement ==
  \A org \in Orgs, id \in TradeIDs, seller \in Hashes, value \in AnswerValues,
     ts \in BuyerTimes :
     (OwnBuyerAnswer(org, id)
        /\ ~(value = "yes" /\ SellerSaidYes(TradeOf(id), seller)))
     => LET res == AnswerTradeAsOwner(ledger, org, id, seller, value, ts)
            i == FindTrade(Trades, id)
            old == Trades[i].Answers
            new == res.ledger.DirectTrades[i].Answers
            j == FindAnswer(old, seller)
            k == FindAnswer(new, seller)
        IN /\ res.err = ""
           /\ res.settled = 0
           /\ res.ledger.Bonds = Bonds
           /\ res.ledger.Transactions = Transactions
           /\ res.ledger.DirectTrades
                = [Trades EXCEPT ![i].Answers = new]
           /\ res.ledger.DirectTrades[i].State = "Open"
           /\ k # 0
           /\ new[k].BuyerResponse = [Value |-> value, Timestamp |-> ts]
           /\ new[k].SellerResponse
                = IF j = 0 THEN NoResponse ELSE old[j].SellerResponse
           /\ Len(new) = Len(old) + (IF j = 0 THEN 1 ELSE 0)
           /\ \A m \in 1..Len(old) : m # k => new[m] = old[m]

\* An Open trade holds the Answer a buyer answer has created (no
\* sellerResponse) next to the Answer of a seller that has answered, and the
\* ledger has a bond.
C30_Witness ==
  \E i \in 1..Len(Trades) :
     /\ Trades[i].State = "Open"
     /\ Bonds # <<>>
     /\ \E j, k \in 1..Len(Trades[i].Answers) :
           /\ Trades[i].Answers[k].SellerResponse = NoResponse
           /\ Trades[i].Answers[k].BuyerResponse.Value # ""
           /\ Trades[i].Answers[j].SellerResponse.Value # ""

\* ---- C31: the bond a settlement hands over
\* C31: the bond whose ownerHash a settlement of a trade changes has the
\* cusip of the trade.
C31_SettledBondHasTradeCusip ==
  [][\A i \in 1..Len(Trades), seller \in Hashes :
       SettlesFor(i, seller)
       => \A b \in OwnerChanged : Bonds[b].Cusip = Trades[i].Cusip]_vars

\* ---- C32: a bond leaves its owner only with the owner's consent
\* C32 (SpecSoleCaller): while one organization makes every invocation, no
\* step changes the ownerHash of a bond of another owner: that owner has
\* recorded no "yes", for it has invoked nothing.
C32_NoTransferWithoutOwnersAnswer ==
  [][\A b \in OwnerChanged : Bonds[b].OwnerHash = SoleCaller]_vars

\* ---- C33: who the initiator of a trade is
\* C33: on every Open trade, an organization passes the ownership check of
\* CloseDirectTrade exactly when it passes the one of AnswerTradeAsOwner.
C33_InitiatorChecksAgree ==
  \A org \in Orgs, i \in 1..Len(Trades) :
     Trades[i].State = "Open"
     => (IsOwner(org, Trades[i].BidderHash)
           <=> CheckTradeAsOwner(Trades[i], org) = "")

\* ---- C34: the buyer lists the bond it has acquired
\* C34: after a settlement, GetAllYourBonds of the buying organization (the
\* one whose stored key is the trade's bidderHash) succeeds and its list
\* holds the bond handed over, whether or not the buyer has a private record
\* of the bond's uid.
C34_BuyerListsAcquiredBond ==
  [][\A i \in 1..Len(Trades), seller \in Hashes, org \in Orgs :
       (SettlesFor(i, seller) /\ encryptionKey[org] = Trades[i].BidderHash)
       => LET res == GetAllYourBonds(ledger', privateBonds', org)
          IN /\ res.err = ""
             /\ \A b \in OwnerChanged :
                   \E k \in 1..Len(res.result) : res.result[k].Public = ledger'.Bonds[b]]_vars

\* ---- C35: the terms of a trade
\* C35: in every step each trade entry stays at its place with the
\* DirectTradeID, cusip, originalFace, bidPrice, bidderHash and createdAt it
\* has; only its state and its answers may change, and the list only grows.
C35_TradeTermsFixed ==
  [][/\ Len(ledger'.DirectTrades) >= Len(Trades)
     /\ \A i \in 1..Len(Trades) :
           [ledger'.DirectTrades[i] EXCEPT !.State = Trades[i].State,
                                           !.Answers = Trades[i].Answers]
             = Trades[i]]_vars

\* A trade that was answered and closed stands before a trade with other
\* terms that is Open.
C35_Witness ==
  \E i, j \in 1..Len(Trades) :
     /\ i < j
     /\ Trades[i].State = "Closed"
     /\ Trades[i].Answers # <<>>
     /\ Trades[j].State = "Open"
     /\ Trades[j].DirectTradeID # Trades[i].DirectTradeID
     /\ Trades[j].BidPrice # Trades[i].BidPrice

=============================================================================
